---- MODULE Spec2Model ----
(***************************************************************************)
(* Task-plan Markdown converter of packages/service/core/ai/agents/plan:   *)
(* parsePlanResponse, formatPlanContent, validatePlanStructure and the     *)
(* structural editor (extract / update / add / remove a step).             *)
(*                                                                         *)
(* A JavaScript string is a sequence of one-character strings.  An object  *)
(* is a record; an optional property that was never written (or that is    *)
(* null / undefined) is a field missing from the record's DOMAIN.          *)
(***************************************************************************)
EXTENDS Integers, Sequences, FiniteSets, TLC

VARIABLES pc, st, line, n, h, plan, markdown, call

vars == <<pc, st, line, n, h, plan, markdown, call>>

(***************************************************************************)
(* Bounds of the model.                                                    *)
(***************************************************************************)
\* lines fed to one run of the parser loop
MaxLines == 5
\* steps of a plan handled by the structural editor
MaxSteps == 3
\* steps of a plan handed to the validator
MaxValSteps == 2
\* largest step index passed to the editor
MaxIndex == 2
\* largest token count createLLMResponse reports
MaxUsage == 2
\* steps of a plan handed to the formatter
MaxFormatSteps == 2

(***************************************************************************)
(* String primitives of the JavaScript runtime, as the code uses them.     *)
(***************************************************************************)
\* the characters String.prototype.trim and the regex class \s remove
WhiteSpace == {" ", "\t", "\n", "\r"}

RECURSIVE TrimStart(_)
TrimStart(s) ==
  IF s # <<>> /\ Head(s) \in WhiteSpace THEN TrimStart(Tail(s)) ELSE s

RECURSIVE TrimEnd(_)
TrimEnd(s) ==
  IF s # <<>> /\ s[Len(s)] \in WhiteSpace
    THEN TrimEnd(SubSeq(s, 1, Len(s) - 1))
    ELSE s

\* String.prototype.trim
Trim(s) == TrimEnd(TrimStart(s))

\* String.prototype.startsWith
StartsWith(s, p) == Len(s) >= Len(p) /\ SubSeq(s, 1, Len(p)) = p

\* String.prototype.substring(k)
Substring(s, k) == SubSeq(s, k + 1, Len(s))

\* String.prototype.includes
Includes(s, p) == \E i \in 1..(Len(s) - Len(p) + 1) : SubSeq(s, i, i + Len(p) - 1) = p

UpperCase == <<"A", "B", "C", "D", "E", "F", "G", "H", "I", "J", "K", "L", "M",
               "N", "O", "P", "Q", "R", "S", "T", "U", "V", "W", "X", "Y", "Z">>
LowerCase == <<"a", "b", "c", "d", "e", "f", "g", "h", "i", "j", "k", "l", "m",
               "n", "o", "p", "q", "r", "s", "t", "u", "v", "w", "x", "y", "z">>

LowerChar(c) ==
  IF \E i \in 1..26 : UpperCase[i] = c
    THEN LowerCase[CHOOSE i \in 1..26 : UpperCase[i] = c]
    ELSE c

\* mutant: the letter case is kept
ToLowerCase_Identity(s) == s

\* String.prototype.toLowerCase
ToLowerCase(s) == [i \in 1..Len(s) |-> LowerChar(s[i])]

\* String.prototype.split('\n')
RECURSIVE Split(_)
Split(s) ==
  IF \E i \in 1..Len(s) : s[i] = "\n"
    THEN LET k == CHOOSE i \in 1..Len(s) : s[i] = "\n" /\ \A j \in 1..(i - 1) : s[j] # "\n"
         IN <<SubSeq(s, 1, k - 1)>> \o Split(SubSeq(s, k + 1, Len(s)))
    ELSE <<s>>

Digits == <<"0", "1", "2", "3", "4", "5", "6", "7", "8", "9">>

\* the decimal text of a number inside a template literal
RECURSIVE NumberToString(_)
NumberToString(k) ==
  IF k < 10 THEN <<Digits[k + 1]>>
  ELSE NumberToString(k \div 10) \o <<Digits[(k % 10) + 1]>>

(***************************************************************************)
(* Literals of the source.                                                 *)
(***************************************************************************)
UntitledPlan == <<"U", "n", "t", "i", "t", "l", "e", "d", " ", "P", "l", "a", "n">>
TitleMarker == <<"#", " ">>
StepMarker == <<"#", "#", " ">>
SectionMarker == <<"#", "#", "#", " ">>
TodoWord == <<"t", "o", "d", "o">>
UncheckedBox == <<"-", " ", "[", " ", "]">>
CheckedBox == <<"-", " ", "[", "x", "]">>
StepLabel == <<"S", "t", "e", "p", " ">>
TodoListHeading == <<"#", "#", "#", " ", "T", "o", "d", "o", " ", "L", "i", "s", "t">>
NL == <<"\n">>

\* null, as the value of currentStep and as the "not found" result
Null == [null |-> TRUE]

\* a property read as a condition: absent, null, undefined and '' are falsy
Truthy(obj, f) == f \in DOMAIN obj /\ obj[f] # <<>>

(***************************************************************************)
(* parsePlanResponse                                                       *)
(***************************************************************************)
\* the locals before the loop
ParserInit ==
  [title |-> <<>>, description |-> <<>>, steps |-> <<>>, currentStep |-> Null,
   isParsingDescription |-> FALSE, isParsingTodos |-> FALSE, threw |-> FALSE]

IsTitleLine(trimmedLine) == StartsWith(trimmedLine, TitleMarker)

IsStepLine(trimmedLine) == StartsWith(trimmedLine, StepMarker)

IsTodoHeader(trimmedLine) ==
  StartsWith(trimmedLine, SectionMarker) /\ Includes(ToLowerCase(trimmedLine), TodoWord)

IsCheckbox(trimmedLine) ==
  StartsWith(trimmedLine, UncheckedBox) \/ StartsWith(trimmedLine, CheckedBox)

\* trimmedLine.replace(/^- \[[x\s]\]\s*/, '')
ReplaceCheckbox(s) ==
  IF /\ Len(s) >= 5
     /\ SubSeq(s, 1, 3) = <<"-", " ", "[">>
     /\ s[4] \in ({"x"} \cup WhiteSpace)
     /\ s[5] = "]"
    THEN TrimStart(SubSeq(s, 6, Len(s)))
    ELSE s

TodoText(trimmedLine) == Trim(ReplaceCheckbox(trimmedLine))

\* currentStep.todos.push(todoText): a TypeError when currentStep is null
PushTodo(s, todoText) ==
  IF s.currentStep = Null
    THEN [s EXCEPT !.threw = TRUE]
    ELSE [s EXCEPT !.currentStep.todos = Append(@, todoText)]

\* mutant: a title line also ends the step in progress and drops it
TitleRule_ClosesStep(s, trimmedLine) ==
  [s EXCEPT !.title = Trim(Substring(trimmedLine, 2)),
            !.isParsingDescription = TRUE,
            !.currentStep = Null,
            !.isParsingTodos = FALSE]

TitleRule(s, trimmedLine) ==
  [s EXCEPT !.title = Trim(Substring(trimmedLine, 2)),
            !.isParsingDescription = TRUE]

\* mutant: substring(2) without trim keeps the space after the marker
StepRule_KeepsSpace(s, trimmedLine) ==
  [s EXCEPT !.steps = IF s.currentStep # Null THEN Append(@, s.currentStep) ELSE @,
            !.currentStep = [title |-> Substring(trimmedLine, 2), todos |-> <<>>],
            !.isParsingDescription = FALSE,
            !.isParsingTodos = FALSE]

\* mutant: a new step heading leaves the todo capture flag as it was
StepRule_KeepsTodoFlag(s, trimmedLine) ==
  [s EXCEPT !.steps = IF s.currentStep # Null THEN Append(@, s.currentStep) ELSE @,
            !.currentStep = [title |-> Trim(Substring(trimmedLine, 3)), todos |-> <<>>],
            !.isParsingDescription = FALSE]

StepRule(s, trimmedLine) ==
  [s EXCEPT !.steps = IF s.currentStep # Null THEN Append(@, s.currentStep) ELSE @,
            !.currentStep = [title |-> Trim(Substring(trimmedLine, 3)), todos |-> <<>>],
            !.isParsingDescription = FALSE,
            !.isParsingTodos = FALSE]

TodoHeaderRule(s) ==
  [s EXCEPT !.isParsingTodos = TRUE, !.isParsingDescription = FALSE]

TodoItemGuard(s, trimmedLine) ==
  s.isParsingTodos /\ s.currentStep # Null /\ IsCheckbox(trimmedLine)

\* mutant: the  if (todoText)  test is dropped
TodoItemRule_KeepEmpty(s, trimmedLine) == PushTodo(s, TodoText(trimmedLine))

TodoItemRule(s, trimmedLine) ==
  IF TodoText(trimmedLine) # <<>> THEN PushTodo(s, TodoText(trimmedLine)) ELSE s

PlanDescriptionGuard(s, trimmedLine) ==
  s.isParsingDescription /\ ~StartsWith(trimmedLine, <<"#">>)

PlanDescriptionRule(s, trimmedLine) ==
  IF s.title # <<>> /\ s.description = <<>>
    THEN [s EXCEPT !.description = trimmedLine]
    ELSE s

StepDescriptionGuard(s, trimmedLine) ==
  /\ s.currentStep # Null
  /\ ~s.isParsingTodos
  /\ ~StartsWith(trimmedLine, <<"#">>)
  /\ ~StartsWith(trimmedLine, <<"#", "#", "#">>)

StepDescriptionRule(s, trimmedLine) ==
  IF ~Truthy(s.currentStep, "description")
    THEN [s EXCEPT !.currentStep = [title |-> @.title, todos |-> @.todos,
                                    description |-> trimmedLine]]
    ELSE s

\* one iteration of  for (const line of lines)
ParseLine(s, rawLine) ==
  LET trimmedLine == Trim(rawLine) IN
  IF s.threw THEN s
  ELSE IF trimmedLine = <<>> THEN s
  ELSE IF IsTitleLine(trimmedLine) THEN TitleRule(s, trimmedLine)
  ELSE IF IsStepLine(trimmedLine) THEN StepRule(s, trimmedLine)
  ELSE IF IsTodoHeader(trimmedLine) THEN TodoHeaderRule(s)
  ELSE IF TodoItemGuard(s, trimmedLine) THEN TodoItemRule(s, trimmedLine)
  ELSE IF PlanDescriptionGuard(s, trimmedLine) THEN PlanDescriptionRule(s, trimmedLine)
  ELSE IF StepDescriptionGuard(s, trimmedLine) THEN StepDescriptionRule(s, trimmedLine)
  ELSE s

\* mutant: the default title is forgotten
DefaultTitle_Missing(t) == t

\* title || 'Untitled Plan'
DefaultTitle(t) == IF t # <<>> THEN t ELSE UntitledPlan

\* mutant: the step in progress at the end of the input is left out
FinalSteps_DropsInProgress(s) == s.steps

\* "Add the last step"
FinalSteps(s) ==
  IF s.currentStep # Null THEN Append(s.steps, s.currentStep) ELSE s.steps

\* the value the call produces: the returned plan, or the exception
Threw == [threw |-> TRUE]

ParseReturn(s) ==
  IF s.threw THEN Threw
  ELSE [title |-> DefaultTitle(s.title), description |-> s.description,
        steps |-> FinalSteps(s)]

RECURSIVE ParseLines(_, _)
ParseLines(s, lines) ==
  IF lines = <<>> THEN s ELSE ParseLines(ParseLine(s, Head(lines)), Tail(lines))

parsePlanResponse(response) == ParseReturn(ParseLines(ParserInit, Split(response)))

(***************************************************************************)
(* formatPlanContent                                                       *)
(***************************************************************************)
RECURSIVE FormatTodos(_)
FormatTodos(todos) ==
  IF todos = <<>> THEN <<>>
  ELSE UncheckedBox \o <<" ">> \o Head(todos) \o NL \o FormatTodos(Tail(todos))

\* mutant: the todo heading is written whether or not the step has todos
FormatStep_AlwaysTodoHeading(step, index) ==
  StepMarker \o StepLabel \o NumberToString(index + 1) \o <<":", " ">> \o step.title \o NL \o NL
  \o (IF Truthy(step, "description") THEN step.description \o NL \o NL ELSE <<>>)
  \o TodoListHeading \o NL \o FormatTodos(step.todos) \o NL

\* mutant: the heading is numbered from zero
FormatStep_ZeroBased(step, index) ==
  StepMarker \o StepLabel \o NumberToString(index) \o <<":", " ">> \o step.title \o NL \o NL
  \o (IF Truthy(step, "description") THEN step.description \o NL \o NL ELSE <<>>)
  \o (IF Len(step.todos) > 0
        THEN TodoListHeading \o NL \o FormatTodos(step.todos) \o NL
        ELSE <<>>)

\* the body of plan.steps.forEach((step, index) => ...)
FormatStep(step, index) ==
  StepMarker \o StepLabel \o NumberToString(index + 1) \o <<":", " ">> \o step.title \o NL \o NL
  \o (IF Truthy(step, "description") THEN step.description \o NL \o NL ELSE <<>>)
  \o (IF Len(step.todos) > 0
        THEN TodoListHeading \o NL \o FormatTodos(step.todos) \o NL
        ELSE <<>>)

RECURSIVE FormatSteps(_, _)
FormatSteps(steps, index) ==
  IF index >= Len(steps) THEN <<>>
  ELSE FormatStep(steps[index + 1], index) \o FormatSteps(steps, index + 1)

formatPlanContent(p) ==
  Trim(TitleMarker \o p.title \o NL \o NL
       \o (IF Truthy(p, "description") THEN p.description \o NL \o NL ELSE <<>>)
       \o FormatSteps(p.steps, 0))

(***************************************************************************)
(* validatePlanStructure                                                   *)
(***************************************************************************)
\* mutant: the todos test is dropped
StepPasses_NoTodosTest(step) == Truthy(step, "title")

\* the two tests of the loop body on one step
StepPasses(step) ==
  /\ Truthy(step, "title")
  /\ "todos" \in DOMAIN step /\ Len(step.todos) # 0

validatePlanStructure(p) ==
  IF ~Truthy(p, "title") THEN FALSE
  ELSE IF "steps" \notin DOMAIN p \/ Len(p.steps) = 0 THEN FALSE
  ELSE \A i \in 1..Len(p.steps) : StepPasses(p.steps[i])

(***************************************************************************)
(* The structural editor                                                   *)
(***************************************************************************)
\* mutant: splice(start, 1, item) overwrites instead of inserting
SpliceInsert_Overwrite(a, start, item) ==
  SubSeq(a, 1, start) \o <<item>> \o SubSeq(a, start + 2, Len(a))

\* a.splice(start, 0, item) on a copy
SpliceInsert(a, start, item) ==
  SubSeq(a, 1, start) \o <<item>> \o SubSeq(a, start + 1, Len(a))

\* mutant: splice(start) removes the step and every later one
SpliceRemove_Rest(a, start) == SubSeq(a, 1, start)

\* mutant: splice(start, 2) removes two steps
SpliceRemove_Two(a, start) ==
  SubSeq(a, 1, start) \o SubSeq(a, start + 3, Len(a))

\* a.splice(start, 1) on a copy
SpliceRemove(a, start) ==
  SubSeq(a, 1, start) \o SubSeq(a, start + 2, Len(a))

\* mutant: stepIndex > 0
InRange_SkipsFirst(p, stepIndex) == stepIndex > 0 /\ stepIndex < Len(p.steps)

\* mutant: stepIndex < length - 1
InRange_SkipsLast(p, stepIndex) == stepIndex >= 0 /\ stepIndex < Len(p.steps) - 1

InRange(p, stepIndex) == stepIndex >= 0 /\ stepIndex < Len(p.steps)

extractStepFromMarkdown(md, stepIndex) ==
  LET p == parsePlanResponse(md) IN
  IF p = Threw THEN Threw
  ELSE IF InRange(p, stepIndex) THEN p.steps[stepIndex + 1]
  ELSE Null

\* mutant: { title: plan.title, steps: newSteps } in place of { ...plan, steps: newSteps }
updateStepInPlan_NoSpread(p, stepIndex, updatedStep) ==
  IF InRange(p, stepIndex)
    THEN [title |-> p.title, steps |-> [p.steps EXCEPT ![stepIndex + 1] = updatedStep]]
    ELSE p

updateStepInPlan(p, stepIndex, updatedStep) ==
  IF InRange(p, stepIndex)
    THEN [p EXCEPT !.steps = [@ EXCEPT ![stepIndex + 1] = updatedStep]]
    ELSE p

\* the optional third argument: args is [insertIndex |-> i], or NoArgs when omitted
NoArgs == <<>>

InsertGuard(a, args) ==
  "insertIndex" \in DOMAIN args /\ args.insertIndex >= 0 /\ args.insertIndex <= Len(a)

addStepToPlan(p, step, args) ==
  [p EXCEPT !.steps = IF InsertGuard(@, args)
                        THEN SpliceInsert(@, args.insertIndex, step)
                        ELSE Append(@, step)]

removeStepFromPlan(p, stepIndex) ==
  IF InRange(p, stepIndex)
    THEN [p EXCEPT !.steps = SpliceRemove(@, stepIndex)]
    ELSE p

(***************************************************************************)
(* The editor on objects: a plan is an object that holds a reference to    *)
(* its steps array, both are cells of a heap (a sequence of cells, a       *)
(* reference is a position in it).  Each operation returns the heap after  *)
(* the call and the reference it returns.                                  *)
(***************************************************************************)
\* the caller's plan as cells: the object at 1, its steps array at 2
PlanRef == 1

Store(p) == <<[p EXCEPT !.steps = 2], p.steps>>

\* the plan object at ref, read with its steps
Load(heap, ref) == [heap[ref] EXCEPT !.steps = heap[@]]

\* mutant: const newSteps = plan.steps (no copy)
SpreadSteps_Alias(heap, ref) == [heap |-> heap, ref |-> heap[ref].steps]

\* const newSteps = [...plan.steps]
SpreadSteps(heap, ref) ==
  [heap |-> Append(heap, heap[heap[ref].steps]), ref |-> Len(heap) + 1]

\* { ...plan, steps: newSteps }
SpreadPlan(heap, ref, newSteps) ==
  [heap |-> Append(heap, [heap[ref] EXCEPT !.steps = newSteps]), ref |-> Len(heap) + 1]

updateStepInPlanRef(heap, ref, stepIndex, updatedStep) ==
  IF InRange(Load(heap, ref), stepIndex)
    THEN LET c == SpreadSteps(heap, ref)
             written == [c.heap EXCEPT ![c.ref] = [@ EXCEPT ![stepIndex + 1] = updatedStep]]
         IN SpreadPlan(written, ref, c.ref)
    ELSE [heap |-> heap, ref |-> ref]

addStepToPlanRef(heap, ref, step, args) ==
  LET c == SpreadSteps(heap, ref)
      written == [c.heap EXCEPT ![c.ref] = IF InsertGuard(@, args)
                                             THEN SpliceInsert(@, args.insertIndex, step)
                                             ELSE Append(@, step)]
  IN SpreadPlan(written, ref, c.ref)

removeStepFromPlanRef(heap, ref, stepIndex) ==
  IF InRange(Load(heap, ref), stepIndex)
    THEN LET c == SpreadSteps(heap, ref)
             written == [c.heap EXCEPT ![c.ref] = SpliceRemove(@, stepIndex)]
         IN SpreadPlan(written, ref, c.ref)
    ELSE [heap |-> heap, ref |-> ref]

(***************************************************************************)
(* Inputs: the lines a response is made of, and whole responses.           *)
(***************************************************************************)
LTitle == <<"#", " ", "T">>
LTitlePadded == <<" ", " ", "#", " ", " ", "U", " ", "\t">>
LStep == <<"#", "#", " ", "A">>
LStepNumbered == <<"#", "#", " ", "S", "t", "e", "p", " ", "1", ":", " ", "B">>
LTodoHeader == <<"#", "#", "#", " ", "T", "o", "d", "o", " ", "L", "i", "s", "t">>
LTodoHeaderUpper == <<"#", "#", "#", " ", "T", "O", "D", "O">>
LOtherHeader == <<"#", "#", "#", " ", "N", "o", "t", "e", "s">>
LHash == <<"#", "x">>
LUnchecked == <<"-", " ", "[", " ", "]", " ", "a">>
LChecked == <<" ", "-", " ", "[", "x", "]", " ", " ", "b", " ">>
LEmptyBox == <<"-", " ", "[", " ", "]", " ", " ">>
LBadBox == <<"-", " ", "[", "y", "]", " ", "c">>
LText == <<"d">>
LTextOther == <<"e", " ", "f">>
LBlank == <<" ", "\t">>

LinePool ==
  {LTitle, LTitlePadded, LStep, LStepNumbered, LTodoHeader, LTodoHeaderUpper,
   LOtherHeader, LHash, LUnchecked, LChecked, LEmptyBox, LBadBox, LText,
   LTextOther, LBlank}

\* lines.join('\n')
RECURSIVE Join(_)
Join(lines) ==
  IF lines = <<>> THEN <<>>
  ELSE IF Len(lines) = 1 THEN Head(lines)
  ELSE Head(lines) \o NL \o Join(Tail(lines))

DocNoSteps == Join(<<LTitle, <<>>, LText>>)
DocFull ==
  Join(<<LTitle, <<>>, LText, <<>>, LStepNumbered, <<>>, LTextOther, <<>>, LTodoHeader,
         LUnchecked, LChecked, LEmptyBox, LBadBox, <<>>, LStep, LTodoHeaderUpper, LUnchecked>>)

\* the documents parsed whole: empty, blank lines only, without a title, without
\* steps, with two todo sections in one step, and one with every kind of line
RawDocs ==
  {<<>>,
   Join(<<<<" ", " ", " ">>, <<"\t">>, <<" ", " ", " ">>>>),
   Join(<<LStepNumbered, <<>>, LTodoHeader, LUnchecked>>),
   DocNoSteps,
   Join(<<LTitle, LStep, LTodoHeader, LUnchecked, <<>>, LTodoHeader, LChecked>>),
   DocFull}

\* the step indexes a caller passes
StepIndexes == -1..MaxIndex

(***************************************************************************)
(* What the response consumed so far looked like (history, read by the     *)
(* properties only): was every line blank, was there a '# ' line, how many *)
(* '## ' lines, how many todo headings since the last '## ' line, and per  *)
(* '## ' line the items that stood under its first todo heading.           *)
(***************************************************************************)
HistoryInit ==
  [allBlank |-> TRUE, sawTitle |-> FALSE, stepLines |-> 0, todoHeaders |-> 0,
   firstBlock |-> <<>>]

HasPrefix(t, p) == Len(t) >= Len(p) /\ \A i \in 1..Len(p) : t[i] = p[i]

Observe(hh, rawLine) ==
  LET t == Trim(rawLine) IN
  IF t = <<>> THEN hh
  ELSE IF HasPrefix(t, <<"#", " ">>)
    THEN [hh EXCEPT !.allBlank = FALSE, !.sawTitle = TRUE]
  ELSE IF HasPrefix(t, <<"#", "#", " ">>)
    THEN [hh EXCEPT !.allBlank = FALSE, !.stepLines = @ + 1, !.todoHeaders = 0,
                    !.firstBlock = Append(@, <<>>)]
  ELSE IF HasPrefix(t, <<"#", "#", "#", " ">>) /\ Includes(ToLowerCase(t), TodoWord)
    THEN [hh EXCEPT !.allBlank = FALSE,
                    !.todoHeaders = IF @ < 2 THEN @ + 1 ELSE @]
  ELSE IF /\ hh.stepLines > 0
          /\ hh.todoHeaders = 1
          /\ (HasPrefix(t, UncheckedBox) \/ HasPrefix(t, CheckedBox))
          /\ Trim(SubSeq(t, 6, Len(t))) # <<>>
    THEN [hh EXCEPT !.allBlank = FALSE,
                    !.firstBlock[hh.stepLines] = Append(@, Trim(SubSeq(t, 6, Len(t))))]
  ELSE [hh EXCEPT !.allBlank = FALSE]

RECURSIVE ObserveLines(_, _)
ObserveLines(hh, lines) ==
  IF lines = <<>> THEN hh ELSE ObserveLines(Observe(hh, Head(lines)), Tail(lines))

(***************************************************************************)
(* The parser pipeline: a response is parsed (line by line, or a whole     *)
(* document at once), the plan is formatted, and the formatted text is     *)
(* parsed again or a step is extracted from it.                            *)
(***************************************************************************)
NoCall == [op |-> "none"]

Init ==
  /\ st = ParserInit
  /\ line = <<>>
  /\ n = 0
  /\ h = HistoryInit
  /\ plan = Null
  /\ call = NoCall
  /\ \/ pc = "parsing" /\ markdown = <<>>
     \/ pc = "raw" /\ markdown \in RawDocs

\* the loop of parsePlanResponse takes the next line of the response
ParseStep(rawLine) ==
  /\ pc = "parsing"
  /\ n < MaxLines
  /\ ~st.threw
  /\ st' = ParseLine(st, rawLine)
  /\ line' = rawLine
  /\ n' = n + 1
  /\ h' = Observe(h, rawLine)
  /\ UNCHANGED <<pc, plan, markdown, call>>

\* the response ends: parsePlanResponse returns and its locals are gone
ParseEnd ==
  /\ pc = "parsing"
  /\ plan' = ParseReturn(st)
  /\ pc' = "parsed"
  /\ st' = ParserInit
  /\ line' = <<>>
  /\ n' = 0
  /\ UNCHANGED <<h, markdown, call>>

\* parsePlanResponse(markdown) on a whole document
ParseDocument ==
  /\ pc = "raw"
  /\ h' = ObserveLines(HistoryInit, Split(markdown))
  /\ plan' = parsePlanResponse(markdown)
  /\ pc' = "parsed"
  /\ UNCHANGED <<st, line, n, markdown, call>>

\* formatPlanContent(plan)
Format ==
  /\ pc = "parsed"
  /\ plan # Threw
  /\ markdown' = formatPlanContent(plan)
  /\ pc' = "formatted"
  /\ UNCHANGED <<st, line, n, h, plan, call>>

\* parsePlanResponse(formatPlanContent(plan))
Reparse ==
  /\ pc = "formatted"
  /\ call' = [op |-> "parsePlanResponse", response |-> markdown,
              result |-> parsePlanResponse(markdown)]
  /\ pc' = "reparsed"
  /\ UNCHANGED <<st, line, n, h, plan, markdown>>

\* extractStepFromMarkdown(markdown, stepIndex)
Extract(stepIndex) ==
  /\ pc \in {"raw", "formatted"}
  /\ call' = [op |-> "extractStepFromMarkdown", markdown |-> markdown,
              stepIndex |-> stepIndex,
              result |-> extractStepFromMarkdown(markdown, stepIndex)]
  /\ pc' = "extracted"
  /\ UNCHANGED <<st, line, n, h, plan, markdown>>

Next ==
  \/ \E rawLine \in LinePool : ParseStep(rawLine)
  \/ ParseEnd
  \/ ParseDocument
  \/ Format
  \/ Reparse
  \/ \E stepIndex \in StepIndexes : Extract(stepIndex)

Spec == Init /\ [][Next]_vars

(***************************************************************************)
(* The structural editor at work: a caller holds a plan and edits it.      *)
(***************************************************************************)
StepA == [title |-> <<"A">>, todos |-> <<<<"a">>>>]
StepB == [title |-> <<"B">>, description |-> <<"d">>, todos |-> <<<<"a">>, <<"b">>>>]
StepC == [title |-> <<"C">>, todos |-> <<>>]

StepPool == {StepA, StepB, StepC}

StepSeqs(k) == UNION {[1..m -> StepPool] : m \in 0..k}

EditPlans ==
  {[title |-> <<"T">>, steps |-> ss] : ss \in StepSeqs(MaxSteps - 1)}
  \cup {[title |-> <<"T">>, description |-> <<"d">>, steps |-> ss] : ss \in StepSeqs(MaxSteps - 1)}

EditIndexes == -1..(MaxSteps + 1)

\* title and description of a plan (history, read by the properties only)
Meta(p) ==
  IF "description" \in DOMAIN p
    THEN [title |-> p.title, description |-> p.description]
    ELSE [title |-> p.title]

InitEdit ==
  /\ pc = "edit"
  /\ plan \in EditPlans
  /\ call = NoCall
  /\ st = ParserInit
  /\ line = <<>>
  /\ n = 0
  /\ h = [start |-> Meta(plan)]
  /\ markdown = <<>>

\* plan = updateStepInPlan(plan, stepIndex, updatedStep); inputAfter is the
\* caller's input plan object as it reads once the call has returned
UpdateStep(stepIndex, updatedStep) ==
  /\ pc = "edit"
  /\ LET r == updateStepInPlanRef(Store(plan), PlanRef, stepIndex, updatedStep)
     IN call' = [op |-> "updateStepInPlan", plan |-> plan, stepIndex |-> stepIndex,
                 step |-> updatedStep,
                 result |-> updateStepInPlan(plan, stepIndex, updatedStep),
                 returned |-> Load(r.heap, r.ref),
                 inputAfter |-> Load(r.heap, PlanRef)]
  /\ plan' = updateStepInPlan(plan, stepIndex, updatedStep)
  /\ UNCHANGED <<pc, st, line, n, h, markdown>>

\* plan = addStepToPlan(plan, step, insertIndex), or addStepToPlan(plan, step)
AddStep(step, args) ==
  /\ pc = "edit"
  /\ Len(plan.steps) < MaxSteps
  /\ LET r == addStepToPlanRef(Store(plan), PlanRef, step, args)
     IN call' = [op |-> "addStepToPlan", plan |-> plan, step |-> step, args |-> args,
                 result |-> addStepToPlan(plan, step, args),
                 returned |-> Load(r.heap, r.ref),
                 inputAfter |-> Load(r.heap, PlanRef)]
  /\ plan' = addStepToPlan(plan, step, args)
  /\ UNCHANGED <<pc, st, line, n, h, markdown>>

\* plan = removeStepFromPlan(plan, stepIndex)
RemoveStep(stepIndex) ==
  /\ pc = "edit"
  /\ LET r == removeStepFromPlanRef(Store(plan), PlanRef, stepIndex)
     IN call' = [op |-> "removeStepFromPlan", plan |-> plan, stepIndex |-> stepIndex,
                 result |-> removeStepFromPlan(plan, stepIndex),
                 returned |-> Load(r.heap, r.ref),
                 inputAfter |-> Load(r.heap, PlanRef)]
  /\ plan' = removeStepFromPlan(plan, stepIndex)
  /\ UNCHANGED <<pc, st, line, n, h, markdown>>

NextEdit ==
  \/ \E stepIndex \in EditIndexes, updatedStep \in StepPool : UpdateStep(stepIndex, updatedStep)
  \/ \E step \in StepPool, insertIndex \in EditIndexes : AddStep(step, [insertIndex |-> insertIndex])
  \/ \E step \in StepPool : AddStep(step, NoArgs)
  \/ \E stepIndex \in EditIndexes : RemoveStep(stepIndex)

SpecEdit == InitEdit /\ [][NextEdit]_vars

(***************************************************************************)
(* The validator on plans as callers build them, well formed or not.       *)
(***************************************************************************)
ValTitles == {<<>>, <<"T">>, <<" ">>, <<" ", "\t", "\n">>}

ValTodos == {<<>>, <<<<>>>>, <<<<"a">>>>}

ValSteps ==
  {[title |-> t, todos |-> td] : t \in ValTitles, td \in ValTodos}
  \cup {[title |-> t, description |-> <<"d">>] : t \in ValTitles}
  \cup {[description |-> <<"d">>, todos |-> td] : td \in ValTodos}

ValStepSeqs == UNION {[1..m -> ValSteps] : m \in 0..MaxValSteps}

ValPlans ==
  {[title |-> t, steps |-> ss] : t \in ValTitles, ss \in ValStepSeqs}
  \cup {[title |-> t, description |-> <<"d">>] : t \in ValTitles}
  \cup {[description |-> <<"d">>, steps |-> ss] : ss \in ValStepSeqs}

InitValidate ==
  /\ pc = "validate"
  /\ plan \in ValPlans
  /\ call = NoCall
  /\ st = ParserInit
  /\ line = <<>>
  /\ n = 0
  /\ h = HistoryInit
  /\ markdown = <<>>

\* validatePlanStructure(plan)
Validate ==
  /\ pc = "validate"
  /\ call' = [op |-> "validatePlanStructure", plan |-> plan,
              result |-> validatePlanStructure(plan)]
  /\ pc' = "validated"
  /\ UNCHANGED <<st, line, n, h, plan, markdown>>

NextValidate == Validate

SpecValidate == InitValidate /\ [][NextValidate]_vars

(***************************************************************************)
(* The prompts (prompt.ts).  A template is a sequence of characters in     *)
(* which a placeholder {{name}} counts as one character; the fixed text of *)
(* a default template is abbreviated to one character.                     *)
(***************************************************************************)
defaultGeneratePlanPrompt == <<"defaultGeneratePlanPrompt", "{{context}}", "{{task}}">>

defaultModifyPlanPrompt == <<"defaultModifyPlanPrompt", "{{currentPlan}}", "{{modification}}">>

Placeholder(name) == "{{" \o name \o "}}"

\* replaceVariable(text, obj): every {{key}} of obj becomes obj[key]
RECURSIVE replaceVariable(_, _)
replaceVariable(text, obj) ==
  IF text = <<>> THEN <<>>
  ELSE (IF \E key \in DOMAIN obj : Head(text) = Placeholder(key)
          THEN obj[CHOOSE key \in DOMAIN obj : Head(text) = Placeholder(key)]
          ELSE <<Head(text)>>)
       \o replaceVariable(Tail(text), obj)

\* customPrompt || defaultPrompt
PromptOrDefault(params, defaultPrompt) ==
  IF Truthy(params, "customPrompt") THEN params.customPrompt ELSE defaultPrompt

\* the variables generatePlanPrompt hands to replaceVariable; an empty or omitted
\* context is replaced by a fixed text
GenerateVariables(params) ==
  [task |-> params.task,
   context |-> IF Truthy(params, "context") THEN params.context ELSE <<"no-context">>]

\* the variables modifyPlanPrompt hands to replaceVariable
ModifyVariables(params) ==
  [currentPlan |-> params.currentPlan, modification |-> params.modification]

generatePlanPrompt(params) ==
  replaceVariable(PromptOrDefault(params, defaultGeneratePlanPrompt), GenerateVariables(params))

modifyPlanPrompt(params) ==
  replaceVariable(PromptOrDefault(params, defaultModifyPlanPrompt), ModifyVariables(params))

(***************************************************************************)
(* The orchestrators (index.ts).  The answer of createLLMResponse is typed *)
(* as a string but arrives unchecked, so a value carries its kind.  An     *)
(* invocation records the calls it makes to its collaborators, in order.   *)
(***************************************************************************)
Str(text) == [kind |-> "string", text |-> text]

JSNull == [kind |-> "null"]

JSUndefined == [kind |-> "undefined"]

\* a value that is neither a string nor falsy
NonString == [kind |-> "object"]

\* mutant: answer === ''
Falsy_OnlyEmptyString(v) == v.kind = "string" /\ v.text = <<>>

\* !answer
Falsy(v) == v.kind \in {"null", "undefined"} \/ (v.kind = "string" /\ v.text = <<>>)

MaxTokens == 2000

Event(name, args) == [ev |-> name, args |-> args]

\* the argument of createLLMResponse
LLMBody(model, content) ==
  [body |-> [model |-> model, temperature |-> "0.1", max_tokens |-> MaxTokens,
             messages |-> <<[role |-> "user", content |-> content]>>,
             stream |-> TRUE]]

\* response.split('\n') on a value that has no split method
SplitTypeError == [name |-> "TypeError", message |-> "response.split is not a function"]

NoFault == [fault |-> FALSE]

\* parsePlanResponse(answer) as the orchestrator calls it: the plan, or what was
\* thrown (by the call on a non-string, or by a stand-in for the parser)
CallParser(answer, fault) ==
  IF fault # NoFault THEN [threw |-> fault]
  ELSE IF answer.kind # "string" THEN [threw |-> SplitTypeError]
  ELSE LET p == parsePlanResponse(answer.text)
       IN IF p = Threw THEN [threw |-> SplitTypeError] ELSE [ok |-> p]

\* { plan: { title, steps: [] }, ... }
FallbackPlan(title) == [title |-> title, steps |-> <<>>]

\* mutant: the counts are not passed on
Returned_ZeroTokens(p, md, usage) ==
  [returned |-> [plan |-> p, markdown |-> md, inputTokens |-> 0, outputTokens |-> 0]]

\* return { plan, markdown, inputTokens, outputTokens }
Returned(p, md, usage) ==
  [returned |-> [plan |-> p, markdown |-> md,
                 inputTokens |-> usage.inputTokens, outputTokens |-> usage.outputTokens]]

\* mutant: the rejection is caught, logged and answered with a fallback
Rejected_Swallowed(error, events) ==
  [events |-> Append(events, Event("addLog.warn", [error |-> error])),
   outcome |-> [returned |-> [plan |-> FallbackPlan(<<>>), markdown |-> Str(<<>>),
                              inputTokens |-> 0, outputTokens |-> 0]]]

\* await createLLMResponse(...) rejects: nothing encloses it, the invocation fails
Rejected(error, events) == [events |-> events, outcome |-> [threw |-> error]]

\* mutant: no try/catch around the parser and the formatter
TryParseAndFormat_NoCatch(answer, usage, fault, title, warning, events) ==
  LET parsed == CallParser(answer, fault)
      called == Append(events, Event("parsePlanResponse",
                                     [response |-> answer, outcome |-> parsed]))
  IN IF "threw" \in DOMAIN parsed
       THEN [events |-> called, outcome |-> [threw |-> parsed.threw]]
       ELSE [events |-> Append(called, Event("formatPlanContent", parsed.ok)),
             outcome |-> Returned(parsed.ok, Str(formatPlanContent(parsed.ok)), usage)]

\* try { parsePlanResponse; formatPlanContent; return } catch (error) { addLog.warn; return }
TryParseAndFormat(answer, usage, fault, title, warning, events) ==
  LET parsed == CallParser(answer, fault)
      called == Append(events, Event("parsePlanResponse",
                                     [response |-> answer, outcome |-> parsed]))
  IN IF "threw" \in DOMAIN parsed
       THEN [events |-> Append(called, Event("addLog.warn",
                                             [message |-> warning, answer |-> answer,
                                              error |-> parsed.threw])),
             outcome |-> Returned(FallbackPlan(title), answer, usage)]
       ELSE [events |-> Append(called, Event("formatPlanContent", parsed.ok)),
             outcome |-> Returned(parsed.ok, Str(formatPlanContent(parsed.ok)), usage)]

\* mutant: createLLMResponse is called a second time
generateTaskPlanCall_Retry(params) ==
  <<Event("generatePlanPrompt", params),
    Event("createLLMResponse", LLMBody(params.model, generatePlanPrompt(params))),
    Event("createLLMResponse", LLMBody(params.model, generatePlanPrompt(params)))>>

\* generateTaskPlan up to the await
generateTaskPlanCall(params) ==
  <<Event("generatePlanPrompt", params),
    Event("createLLMResponse", LLMBody(params.model, generatePlanPrompt(params)))>>

\* generateTaskPlan from the await on; llm is what createLLMResponse settled with
generateTaskPlanResume(params, events, llm, fault) ==
  IF "rejected" \in DOMAIN llm THEN Rejected(llm.rejected, events)
  ELSE IF Falsy(llm.answerText)
    THEN [events |-> events,
          outcome |-> Returned(FallbackPlan(params.task), Str(<<>>), llm.usage)]
  ELSE TryParseAndFormat(llm.answerText, llm.usage, fault, params.task,
                         "Generate task plan failed", events)

\* modifyTaskPlan up to the await
modifyTaskPlanCall(params) ==
  <<Event("modifyPlanPrompt", params),
    Event("createLLMResponse", LLMBody(params.model, modifyPlanPrompt(params)))>>

\* modifyTaskPlan from the await on
modifyTaskPlanResume(params, events, llm, fault) ==
  IF "rejected" \in DOMAIN llm THEN Rejected(llm.rejected, events)
  ELSE IF Falsy(llm.answerText)
    THEN [events |-> events,
          outcome |-> Returned(FallbackPlan(<<>>), Str(params.currentPlan), llm.usage)]
  ELSE TryParseAndFormat(llm.answerText, llm.usage, fault, <<>>,
                         "Modify task plan failed", events)

(***************************************************************************)
(* The orchestrators at work: an invocation renders its prompt and calls   *)
(* createLLMResponse, then resumes when that call settles.                 *)
(***************************************************************************)

CustomPrompts == {<<>>, <<"c", "{{task}}">>}

Models == {<<"m">>}

CurrentPlans == {<<>>, DocNoSteps}

\* r with the optional property f set
WithProperty(r, f, v) == [x \in DOMAIN r \cup {f} |-> IF x = f THEN v ELSE r[x]]

WithOptional(rs, f, vs) == rs \cup {WithProperty(r, f, v) : r \in rs, v \in vs}

GenerateParams ==
  WithOptional(WithOptional({[task |-> t, model |-> m] : t \in {<<>>, <<"t">>}, m \in Models},
                            "context", {<<>>, <<"x">>}),
               "customPrompt", CustomPrompts)

ModifyParams ==
  WithOptional({[currentPlan |-> c, modification |-> o, model |-> m] :
                  c \in CurrentPlans, o \in {<<"o">>}, m \in Models},
               "customPrompt", CustomPrompts)

Answers == {JSNull, JSUndefined, NonString} \cup {Str(d) : d \in RawDocs}

Usages == [inputTokens : 0..MaxUsage, outputTokens : 0..MaxUsage]

\* what createLLMResponse rejects with
LLMErrors == {[name |-> "Error", message |-> "LLM API connection failed"],
              Str(<<"e">>)}

StringFault == Str(<<"S", "t", "r", "i", "n", "g", " ", "e", "r", "r", "o", "r">>)

\* what a stand-in for parsePlanResponse throws
ParserFaults == {[name |-> "SyntaxError", message |-> "Invalid syntax"], StringFault}

Pending == [pending |-> TRUE]

InitOrch ==
  /\ pc = "idle"
  /\ call = NoCall
  /\ plan = Null
  /\ markdown = <<>>
  /\ st = ParserInit
  /\ line = <<>>
  /\ n = 0
  /\ h = HistoryInit

\* generateTaskPlan(params) runs up to its await
GenerateTaskPlan(params) ==
  /\ pc = "idle"
  /\ pc' = "awaiting"
  /\ call' = [op |-> "generateTaskPlan", params |-> params,
              events |-> generateTaskPlanCall(params), llm |-> Pending,
              outcome |-> Pending]
  /\ UNCHANGED <<st, line, n, h, plan, markdown>>

\* modifyTaskPlan(params) runs up to its await
ModifyTaskPlan(params) ==
  /\ pc = "idle"
  /\ pc' = "awaiting"
  /\ call' = [op |-> "modifyTaskPlan", params |-> params,
              events |-> modifyTaskPlanCall(params), llm |-> Pending,
              outcome |-> Pending]
  /\ UNCHANGED <<st, line, n, h, plan, markdown>>

\* the awaited call settles with llm and the invocation runs to its end
Resume(llm, fault) ==
  LET r == IF call.op = "generateTaskPlan"
             THEN generateTaskPlanResume(call.params, call.events, llm, fault)
             ELSE modifyTaskPlanResume(call.params, call.events, llm, fault)
  IN /\ call' = [call EXCEPT !.llm = llm, !.events = r.events, !.outcome = r.outcome]
     /\ pc' = IF "returned" \in DOMAIN r.outcome THEN "returned" ELSE "failed"
     /\ UNCHANGED <<st, line, n, h, plan, markdown>>

\* createLLMResponse resolves
LLMResolve(answerText, usage, fault) ==
  /\ pc = "awaiting"
  /\ Resume([answerText |-> answerText, usage |-> usage], fault)

\* createLLMResponse rejects
LLMReject(error) ==
  /\ pc = "awaiting"
  /\ Resume([rejected |-> error], NoFault)

NextOrch ==
  \/ \E params \in GenerateParams : GenerateTaskPlan(params)
  \/ \E params \in ModifyParams : ModifyTaskPlan(params)
  \/ \E answerText \in Answers, usage \in Usages, fault \in ParserFaults \cup {NoFault} :
       LLMResolve(answerText, usage, fault)
  \/ \E error \in LLMErrors : LLMReject(error)

SpecOrch == InitOrch /\ [][NextOrch]_vars

(***************************************************************************)
(* transferPlanAgent (index.ts): one call to createLLMResponse on the      *)
(* shared context, the whole of it inside a try block.                     *)
(***************************************************************************)
\* customSystemPrompt || defaultGeneratePlanPrompt
SystemPrompt(props) ==
  IF Truthy(props, "customSystemPrompt") THEN props.customSystemPrompt
  ELSE defaultGeneratePlanPrompt

\* the messages sent: the system prompt, the shared context without its system
\* messages, the instruction as the user's message
TransferMessages(props) ==
  <<[role |-> "system", content |-> SystemPrompt(props)]>>
  \o SelectSeq(props.sharedContext, LAMBDA item : item.role # "system")
  \o <<[role |-> "user", content |-> props.toolArgs.instruction]>>

\* the argument of createLLMResponse (the onStreaming callback apart)
TransferBody(props) ==
  [body |-> [model |-> props.model, temperature |-> "0",
             messages |-> TransferMessages(props), stream |-> TRUE]]

\* transferPlanAgent up to the await
transferPlanAgentCall(props) == <<Event("createLLMResponse", TransferBody(props))>>

\* mutant: no try/catch, the rejection leaves the call
transferPlanAgentResume_NoCatch(events, llm) ==
  IF "rejected" \in DOMAIN llm
    THEN [events |-> events, outcome |-> [threw |-> llm.rejected]]
    ELSE [events |-> events,
          outcome |-> [returned |-> [content |-> llm.answerText,
                                     inputTokens |-> llm.usage.inputTokens,
                                     outputTokens |-> llm.usage.outputTokens]]]

\* transferPlanAgent from the await on
transferPlanAgentResume(events, llm) ==
  IF "rejected" \in DOMAIN llm
    THEN [events |-> Append(events, Event("addLog.warn",
                                          [message |-> "call plan_agent failed"])),
          outcome |-> [returned |-> [content |-> Str(<<>>), inputTokens |-> 0,
                                     outputTokens |-> 0]]]
    ELSE [events |-> events,
          outcome |-> [returned |-> [content |-> llm.answerText,
                                     inputTokens |-> llm.usage.inputTokens,
                                     outputTokens |-> llm.usage.outputTokens]]]

SystemMessage == [role |-> "system", content |-> <<"s">>]

UserMessage == [role |-> "user", content |-> <<"u">>]

SharedContexts ==
  {<<>>, <<SystemMessage>>,
   <<SystemMessage, UserMessage, [role |-> "assistant", content |-> <<"a">>]>>,
   <<UserMessage, SystemMessage>>}

TransferProps ==
  WithOptional({[model |-> m, toolId |-> <<"1">>, toolArgs |-> [instruction |-> i],
                 sharedContext |-> c] :
                  m \in Models, i \in {<<>>, <<"i">>}, c \in SharedContexts},
               "customSystemPrompt", CustomPrompts)

InitTransfer ==
  /\ pc = "idle"
  /\ call = NoCall
  /\ plan = Null
  /\ markdown = <<>>
  /\ st = ParserInit
  /\ line = <<>>
  /\ n = 0
  /\ h = HistoryInit

\* transferPlanAgent(props) runs up to its await
TransferPlanAgent(props) ==
  /\ pc = "idle"
  /\ pc' = "awaiting"
  /\ call' = [op |-> "transferPlanAgent", params |-> props,
              events |-> transferPlanAgentCall(props), llm |-> Pending,
              outcome |-> Pending]
  /\ UNCHANGED <<st, line, n, h, plan, markdown>>

\* the awaited call settles with llm and the invocation runs to its end
TransferSettle(llm) ==
  LET r == transferPlanAgentResume(call.events, llm)
  IN /\ pc = "awaiting"
     /\ call' = [call EXCEPT !.llm = llm, !.events = r.events, !.outcome = r.outcome]
     /\ pc' = IF "returned" \in DOMAIN r.outcome THEN "returned" ELSE "failed"
     /\ UNCHANGED <<st, line, n, h, plan, markdown>>

\* createLLMResponse resolves
TransferResolve(answerText, usage) ==
  TransferSettle([answerText |-> answerText, usage |-> usage])

\* createLLMResponse rejects
TransferReject(error) == TransferSettle([rejected |-> error])

NextTransfer ==
  \/ \E props \in TransferProps : TransferPlanAgent(props)
  \/ \E answerText \in Answers, usage \in Usages : TransferResolve(answerText, usage)
  \/ \E error \in LLMErrors : TransferReject(error)

SpecTransfer == InitTransfer /\ [][NextTransfer]_vars

(***************************************************************************)
(* The formatter on plans as callers build them: fields with and without   *)
(* surrounding whitespace, empty fields, a title that holds a step number. *)
(***************************************************************************)
StepNumbered ==
  [title |-> <<"S", "t", "e", "p", " ", "1", ":", " ", "B">>, description |-> <<>>,
   todos |-> <<<<>>, <<"a", " ">>>>]

FormatStepPool == {StepA, StepB, StepC, StepNumbered}

FormatTitles == {<<>>, <<"T">>, <<" ", "T", " ">>}

FormatPlans ==
  LET seqs == UNION {[1..m -> FormatStepPool] : m \in 0..MaxFormatSteps}
      bare == {[title |-> t, steps |-> ss] : t \in FormatTitles, ss \in seqs}
  IN WithOptional(bare, "description", {<<>>, <<"d">>})

InitFormat ==
  /\ pc = "plan"
  /\ plan \in FormatPlans
  /\ call = NoCall
  /\ markdown = <<>>
  /\ st = ParserInit
  /\ line = <<>>
  /\ n = 0
  /\ h = HistoryInit

\* markdown = formatPlanContent(plan)
FormatPlan ==
  /\ pc = "plan"
  /\ pc' = "formatted"
  /\ markdown' = formatPlanContent(plan)
  /\ call' = [op |-> "formatPlanContent", plan |-> plan,
              result |-> formatPlanContent(plan)]
  /\ UNCHANGED <<st, line, n, h, plan>>

\* extractStepFromMarkdown(formatPlanContent(plan), stepIndex)
ExtractFormatted(stepIndex) ==
  /\ pc = "formatted"
  /\ pc' = "extracted"
  /\ call' = [op |-> "extractStepFromMarkdown", markdown |-> markdown,
              stepIndex |-> stepIndex,
              result |-> extractStepFromMarkdown(markdown, stepIndex)]
  /\ UNCHANGED <<st, line, n, h, plan, markdown>>

NextFormat ==
  \/ FormatPlan
  \/ \E stepIndex \in StepIndexes : ExtractFormatted(stepIndex)

SpecFormat == InitFormat /\ [][NextFormat]_vars

(***************************************************************************)
(* Properties.                                                             *)
(***************************************************************************)
IsBlankChar(c) == c \in {" ", "\t", "\n", "\r"}

\* no character, or only blank ones
IsBlank(t) == \A i \in 1..Len(t) : IsBlankChar(t[i])

\* neither empty nor starting or ending with a blank character
IsTrimmed(t) == t # <<>> /\ ~IsBlankChar(t[1]) /\ ~IsBlankChar(t[Len(t)])

HasPlan == pc \in {"parsed", "formatted", "reparsed"}

EmptyPlan == [title |-> UntitledPlan, description |-> <<>>, steps |-> <<>>]

\* the todos of all steps, finished and in progress, in document order
RECURSIVE TodosOfSteps(_)
TodosOfSteps(ss) ==
  IF ss = <<>> THEN <<>> ELSE Head(ss).todos \o TodosOfSteps(Tail(ss))

AllTodos(s) ==
  TodosOfSteps(s.steps) \o (IF s.currentStep = Null THEN <<>> ELSE s.currentStep.todos)

\* C1: parsing a response, formatting the plan and parsing the formatted text
\* again gives back the same plan, field for field.
C1_RoundTrip ==
  pc = "reparsed" => call.result = plan

\* C2 (state part): the parser never raises and returns a plan with title,
\* description and steps; without a '# ' line the title is "Untitled Plan" and
\* every '## ' line still has its step, holding at least the items listed under
\* its first todo heading; a response of blank lines only gives exactly
\* {title: "Untitled Plan", description: "", steps: []}.
C2_Result ==
  /\ ~st.threw
  /\ HasPlan =>
       /\ plan # Threw
       /\ DOMAIN plan = {"title", "description", "steps"}
       /\ h.allBlank => plan = EmptyPlan
       /\ ~h.sawTitle =>
            /\ plan.title = UntitledPlan
            /\ Len(plan.steps) = h.stepLines
            /\ \A k \in 1..Len(plan.steps) :
                 /\ Len(plan.steps[k].todos) >= Len(h.firstBlock[k])
                 /\ SubSeq(plan.steps[k].todos, 1, Len(h.firstBlock[k])) = h.firstBlock[k]

\* C2 (return step): when the loop ends with no title captured the returned title
\* is "Untitled Plan", otherwise the captured title; with no description captured
\* the returned description is the empty string.
C2_Return ==
  (pc = "parsing" /\ pc' = "parsed") =>
    /\ plan' # Threw
    /\ plan'.title = (IF st.title = <<>> THEN UntitledPlan ELSE st.title)
    /\ plan'.title # <<>>
    /\ st.description = <<>> => plan'.description = <<>>

\* C2: parsePlanResponse never raises and defaults a missing title to
\* "Untitled Plan" and a missing description to the empty string; blank input
\* gives the empty plan and steps without a title line are all kept.
C2_Defaults == []C2_Result /\ [][C2_Return]_vars

C2_Witness ==
  /\ pc = "parsed"
  /\ ~h.sawTitle
  /\ plan.title = UntitledPlan
  /\ Len(plan.steps) = 2
  /\ plan.steps[1].todos # <<>>

\* C3 (state part): no todo held by the parser or returned in a plan is empty or
\* has leading or trailing whitespace.
C3_TodosTrimmed ==
  /\ \A i \in 1..Len(AllTodos(st)) : IsTrimmed(AllTodos(st)[i])
  /\ (HasPlan /\ plan # Threw) =>
       \A k \in 1..Len(plan.steps) :
         \A i \in 1..Len(plan.steps[k].todos) : IsTrimmed(plan.steps[k].todos[i])

\* C3 (line step): while the todo block of a current step is captured, a line
\* starting with '- [ ]' or '- [x]' appends the trimmed text after the marker to
\* the end of the current step's todos, or nothing when that text is empty, and
\* changes no other step; a line that is no checkbox appends no todo anywhere.
C3_LineStep ==
  (pc = "parsing" /\ n' = n + 1) =>
    LET t == Trim(line')
        box == HasPrefix(t, UncheckedBox) \/ HasPrefix(t, CheckedBox)
        text == Trim(SubSeq(t, 6, Len(t)))
    IN /\ (st.isParsingTodos /\ st.currentStep # Null /\ box) =>
            /\ st'.steps = st.steps
            /\ st'.currentStep # Null
            /\ st'.currentStep.title = st.currentStep.title
            /\ st'.currentStep.todos =
                 (IF IsBlank(text) THEN st.currentStep.todos
                  ELSE Append(st.currentStep.todos, text))
       /\ ~box => AllTodos(st') = AllTodos(st)

\* C3: checkbox lines inside a todo block append their trimmed text in document
\* order, checked and unchecked alike; empty items and non-checkbox lines append
\* nothing; so no todo is empty or untrimmed.
C3_TodoItems == []C3_TodosTrimmed /\ [][C3_LineStep]_vars

C3_Witness ==
  /\ pc = "parsing"
  /\ line = LChecked
  /\ st.isParsingTodos
  /\ st.currentStep # Null
  /\ st.currentStep.todos = <<<<"a">>, <<"b">>>>

\* C4: every step's todos are exactly the items that stood under the first
\* todo-list heading of that step; items under a second heading are absent.
C4_FirstTodoBlockOnly ==
  (HasPlan /\ plan # Threw) =>
    /\ Len(plan.steps) = Len(h.firstBlock)
    /\ \A k \in 1..Len(plan.steps) : plan.steps[k].todos = h.firstBlock[k]

NonBlank(obj, f) == f \in DOMAIN obj /\ ~IsBlank(obj[f])

\* the title is absent, empty, or has a character that is not whitespace
ProperTitle(obj) == "title" \notin DOMAIN obj \/ obj.title = <<>> \/ ~IsBlank(obj.title)

ProperTitles(p) ==
  /\ ProperTitle(p)
  /\ "steps" \in DOMAIN p => \A k \in 1..Len(p.steps) : ProperTitle(p.steps[k])

WellFormed(p) ==
  /\ NonBlank(p, "title")
  /\ "steps" \in DOMAIN p
  /\ Len(p.steps) >= 1
  /\ \A k \in 1..Len(p.steps) :
       /\ NonBlank(p.steps[k], "title")
       /\ "todos" \in DOMAIN p.steps[k]
       /\ Len(p.steps[k].todos) >= 1

\* C5: on plans whose titles are absent, empty or not blank, validatePlanStructure
\* returns true exactly when the plan title is non-empty, steps exists and has an
\* element, and every step has a non-empty title and a todos sequence with an
\* element, whatever the todo strings hold.
C5_ValidateIff ==
  (call.op = "validatePlanStructure" /\ ProperTitles(call.plan)) =>
    (call.result <=> WellFormed(call.plan))

C5_Witness ==
  /\ call.op = "validatePlanStructure"
  /\ ProperTitles(call.plan)
  /\ call.result
  /\ Len(call.plan.steps) = 2
  /\ call.plan.steps[2].todos = <<<<>>>>

HasBlankTitle(p) ==
  \/ "title" \in DOMAIN p /\ p.title # <<>> /\ IsBlank(p.title)
  \/ /\ "steps" \in DOMAIN p
     /\ \E k \in 1..Len(p.steps) :
          /\ "title" \in DOMAIN p.steps[k]
          /\ p.steps[k].title # <<>>
          /\ IsBlank(p.steps[k].title)

\* C6: validatePlanStructure returns false for a plan whose title, or one of
\* whose step titles, consists of whitespace only.
C6_BlankTitleRejected ==
  (call.op = "validatePlanStructure" /\ HasBlankTitle(call.plan)) => ~call.result

\* C7: addStepToPlan returns one step more; with an index in 0..length the step
\* is at that index, earlier steps keep their place and later ones move right by
\* one; with any other index, or none, the step is last and the others stay.
C7_AddStep ==
  call.op = "addStepToPlan" =>
    LET old == call.plan.steps
        new == call.result.steps
        given == "insertIndex" \in DOMAIN call.args
    IN /\ Len(new) = Len(old) + 1
       /\ IF given /\ call.args.insertIndex >= 0 /\ call.args.insertIndex <= Len(old)
            THEN LET i == call.args.insertIndex
                 IN /\ new[i + 1] = call.step
                    /\ \A k \in 1..i : new[k] = old[k]
                    /\ \A k \in (i + 1)..Len(old) : new[k + 1] = old[k]
            ELSE /\ new[Len(new)] = call.step
                 /\ \A k \in 1..Len(old) : new[k] = old[k]

C7_Witness ==
  /\ call.op = "addStepToPlan"
  /\ "insertIndex" \in DOMAIN call.args
  /\ call.args.insertIndex = 1
  /\ call.plan.steps = <<StepA, StepB>>
  /\ call.result.steps = <<StepA, StepC, StepB>>

\* C8: removeStepFromPlan with an index in 0..length-1 returns the steps without
\* the one at that index, later steps moved left by one; with any other index the
\* result has the title, description and steps of the input.
C8_RemoveStep ==
  call.op = "removeStepFromPlan" =>
    LET old == call.plan.steps
        new == call.result.steps
        i == call.stepIndex
    IN IF i >= 0 /\ i < Len(old)
         THEN /\ Len(new) = Len(old) - 1
              /\ \A k \in 1..i : new[k] = old[k]
              /\ \A k \in (i + 1)..Len(new) : new[k] = old[k + 1]
         ELSE call.result = call.plan

C8_Witness ==
  /\ call.op = "removeStepFromPlan"
  /\ call.stepIndex = 1
  /\ call.plan.steps = <<StepA, StepB, StepC>>
  /\ call.result.steps = <<StepA, StepC>>

\* C9 as claimed: updateStepInPlan with an index in range replaces that step
\* only; with any other index the result is the input plan and the step argument
\* appears nowhere in it.
C9_UpdateStepAbsent ==
  call.op = "updateStepInPlan" =>
    LET old == call.plan.steps
        new == call.result.steps
        i == call.stepIndex
    IN IF i >= 0 /\ i < Len(old)
         THEN /\ Len(new) = Len(old)
              /\ new[i + 1] = call.step
              /\ \A k \in 1..Len(old) : k # i + 1 => new[k] = old[k]
         ELSE /\ call.result = call.plan
              /\ \A k \in 1..Len(new) : new[k] # call.step

\* C9 amended: updateStepInPlan with an index in range replaces that step only;
\* with any other index the result is the input plan, so the step argument is in
\* it only where the input plan already held an equal step.
C9_UpdateStep ==
  call.op = "updateStepInPlan" =>
    LET old == call.plan.steps
        new == call.result.steps
        i == call.stepIndex
    IN IF i >= 0 /\ i < Len(old)
         THEN /\ Len(new) = Len(old)
              /\ new[i + 1] = call.step
              /\ \A k \in 1..Len(old) : k # i + 1 => new[k] = old[k]
         ELSE /\ call.result = call.plan
              /\ \A k \in 1..Len(new) : new[k] = call.step => old[k] = call.step

C9_Witness ==
  /\ call.op = "updateStepInPlan"
  /\ call.stepIndex = 1
  /\ call.plan.steps = <<StepA, StepB, StepA>>
  /\ call.result.steps = <<StepA, StepC, StepA>>

\* C10: extractStepFromMarkdown returns the step at the index among the steps
\* parsed from the markdown when the index is in 0..count-1, and null otherwise,
\* and never raises.
C10_ExtractStep ==
  call.op = "extractStepFromMarkdown" =>
    LET p == parsePlanResponse(call.markdown)
        i == call.stepIndex
    IN /\ call.result # Threw
       /\ p # Threw
       /\ IF i >= 0 /\ i < Len(p.steps)
            THEN call.result = p.steps[i + 1]
            ELSE call.result = Null
       /\ (pc = "extracted" /\ plan # Null) =>
            (IF i >= 0 /\ i < Len(plan.steps)
               THEN /\ call.result # Null
                    /\ call.result.todos = plan.steps[i + 1].todos
               ELSE call.result = Null)

C10_Witness ==
  /\ call.op = "extractStepFromMarkdown"
  /\ plan # Null
  /\ Len(plan.steps) = 2
  /\ call.stepIndex = 2
  /\ call.result = Null

\* C11: the plans returned by updateStepInPlan, addStepToPlan and
\* removeStepFromPlan have the title and the description (or the absence of one)
\* of the input plan, whatever the arguments; after any sequence of edits the
\* plan's title and description are those of the plan the sequence started from.
EditOps == {"updateStepInPlan", "addStepToPlan", "removeStepFromPlan"}

C11_MetaPreserved ==
  /\ Meta(plan) = h.start
  /\ call.op \in EditOps => Meta(call.result) = Meta(call.plan)

C11_Witness ==
  /\ call.op = "updateStepInPlan"
  /\ call.stepIndex = 1
  /\ call.result # call.plan
  /\ Len(call.plan.steps) = MaxSteps
  /\ h.start = [title |-> <<"T">>, description |-> <<"d">>]

\* C12: updateStepInPlan, addStepToPlan and removeStepFromPlan do not mutate
\* their input: after the call the input plan object reads as before (title,
\* description, number of steps and every step in order), whatever the index and
\* whether or not the returned plan differs from the input.
C12_InputNotMutated ==
  call.op \in EditOps =>
    /\ call.inputAfter = call.plan
    /\ call.returned = call.result

C12_Witness ==
  /\ call.op = "addStepToPlan"
  /\ call.args = [insertIndex |-> 1]
  /\ call.plan.steps = <<StepA, StepB>>
  /\ call.returned.steps = <<StepA, StepC, StepB>>
  /\ call.inputAfter.steps = <<StepA, StepB>>

\* the calls an invocation made to the collaborator called name, in order
EventsOf(name) == SelectSeq(call.events, LAMBDA e : e.ev = name)

Settled == pc \in {"returned", "failed"}

EmptyAnswers == {Str(<<>>), JSNull, JSUndefined}

\* C13: when createLLMResponse resolves with an empty string, null or undefined,
\* neither parsePlanResponse nor formatPlanContent is called; generateTaskPlan
\* returns plan {title: task, steps: []} with markdown "", modifyTaskPlan returns
\* plan {title: "", steps: []} with markdown equal to currentPlan.
C13_EmptyAnswer ==
  (Settled /\ "answerText" \in DOMAIN call.llm /\ call.llm.answerText \in EmptyAnswers) =>
    /\ EventsOf("parsePlanResponse") = <<>>
    /\ EventsOf("formatPlanContent") = <<>>
    /\ pc = "returned"
    /\ call.op = "generateTaskPlan" =>
         /\ call.outcome.returned.plan = [title |-> call.params.task, steps |-> <<>>]
         /\ call.outcome.returned.markdown = Str(<<>>)
    /\ call.op = "modifyTaskPlan" =>
         /\ call.outcome.returned.plan = [title |-> <<>>, steps |-> <<>>]
         /\ call.outcome.returned.markdown = Str(call.params.currentPlan)

C13_Witness ==
  /\ pc = "returned"
  /\ call.op = "modifyTaskPlan"
  /\ call.llm.answerText = JSNull
  /\ call.params.currentPlan = DocNoSteps
  /\ call.outcome.returned.markdown = Str(DocNoSteps)

\* C14: when parsePlanResponse throws, whatever the thrown value, the invocation
\* returns: one warning is logged with the raw answer and the thrown value,
\* formatPlanContent is not called, markdown is the raw answer and the plan is
\* {title: task, steps: []} for generateTaskPlan, {title: "", steps: []} for
\* modifyTaskPlan.
C14_ParserFailure ==
  (Settled /\ EventsOf("parsePlanResponse") # <<>>
     /\ "threw" \in DOMAIN EventsOf("parsePlanResponse")[1].args.outcome) =>
    LET thrown == EventsOf("parsePlanResponse")[1].args.outcome.threw
        warnings == EventsOf("addLog.warn")
    IN /\ pc = "returned"
       /\ Len(warnings) = 1
       /\ warnings[1].args.answer = call.llm.answerText
       /\ warnings[1].args.error = thrown
       /\ EventsOf("formatPlanContent") = <<>>
       /\ call.outcome.returned.markdown = call.llm.answerText
       /\ call.outcome.returned.plan =
            [title |-> IF call.op = "generateTaskPlan" THEN call.params.task ELSE <<>>,
             steps |-> <<>>]

C14_Witness ==
  /\ pc = "returned"
  /\ call.op = "generateTaskPlan"
  /\ call.params.task = <<"t">>
  /\ call.llm.answerText = Str(DocFull)
  /\ Len(EventsOf("addLog.warn")) = 1
  /\ EventsOf("addLog.warn")[1].args.error = StringFault
  /\ call.outcome.returned.markdown = Str(DocFull)

\* C15: when createLLMResponse rejects, the invocation fails with the value it
\* rejected with; parsePlanResponse and formatPlanContent are not called and no
\* warning is logged.
C15_LLMFailure ==
  (Settled /\ "rejected" \in DOMAIN call.llm) =>
    /\ pc = "failed"
    /\ call.outcome = [threw |-> call.llm.rejected]
    /\ EventsOf("parsePlanResponse") = <<>>
    /\ EventsOf("formatPlanContent") = <<>>
    /\ EventsOf("addLog.warn") = <<>>

C15_Witness ==
  /\ pc = "failed"
  /\ call.op = "modifyTaskPlan"
  /\ call.llm.rejected = Str(<<"e">>)
  /\ call.outcome = [threw |-> Str(<<"e">>)]

\* C16: whenever generateTaskPlan or modifyTaskPlan returns (parsed and
\* formatted, empty answer, or caught parser failure) inputTokens and
\* outputTokens are the counts createLLMResponse reported, zero included.
C16_TokensPassedOn ==
  pc = "returned" =>
    /\ call.outcome.returned.inputTokens = call.llm.usage.inputTokens
    /\ call.outcome.returned.outputTokens = call.llm.usage.outputTokens

C16_Witness ==
  /\ pc = "returned"
  /\ EventsOf("addLog.warn") # <<>>
  /\ call.llm.usage = [inputTokens |-> MaxUsage, outputTokens |-> 0]
  /\ call.outcome.returned.inputTokens = MaxUsage
  /\ call.outcome.returned.outputTokens = 0

\* C20: the prompt generatePlanPrompt and modifyPlanPrompt return is
\* replaceVariable applied to the caller's customPrompt whenever one is given,
\* the empty string included, and to the default template only when customPrompt
\* is omitted.
C20_CustomPromptUsed ==
  call.op \in {"generateTaskPlan", "modifyTaskPlan"} =>
    LET generate == call.op = "generateTaskPlan"
        template == IF "customPrompt" \in DOMAIN call.params
                      THEN call.params.customPrompt
                      ELSE IF generate THEN defaultGeneratePlanPrompt
                           ELSE defaultModifyPlanPrompt
        variables == IF generate THEN GenerateVariables(call.params)
                     ELSE ModifyVariables(call.params)
    IN EventsOf("createLLMResponse")[1].args.body.messages[1].content
         = replaceVariable(template, variables)

\* the lines the formatter is to write for the todos, one unchecked item each
TodoLines(todos) == [i \in 1..Len(todos) |-> <<"-", " ", "[", " ", "]", " ">> \o todos[i]]

\* the lines for the k-th step: heading numbered k, description if not empty,
\* todo heading and items if there is a todo, each block followed by a blank line
StepLines(step, k) ==
  <<(<<"#", "#", " ", "S", "t", "e", "p", " ">> \o NumberToString(k) \o <<":", " ">>
     \o step.title), <<>>>>
  \o (IF "description" \in DOMAIN step /\ step.description # <<>>
        THEN <<step.description, <<>>>> ELSE <<>>)
  \o (IF step.todos # <<>>
        THEN <<(<<"#", "#", "#", " ", "T", "o", "d", "o", " ", "L", "i", "s", "t">>)>>
             \o TodoLines(step.todos) \o << <<>> >>
        ELSE <<>>)

RECURSIVE AllStepLines(_, _)
AllStepLines(steps, k) ==
  IF steps = <<>> THEN <<>>
  ELSE StepLines(Head(steps), k) \o AllStepLines(Tail(steps), k + 1)

PlanLines(p) ==
  <<(<<"#", " ">> \o p.title), <<>>>>
  \o (IF "description" \in DOMAIN p /\ p.description # <<>>
        THEN <<p.description, <<>>>> ELSE <<>>)
  \o AllStepLines(p.steps, 1)

RECURSIVE DropTrailingEmpty(_)
DropTrailingEmpty(lines) ==
  IF lines # <<>> /\ lines[Len(lines)] = <<>>
    THEN DropTrailingEmpty(SubSeq(lines, 1, Len(lines) - 1))
    ELSE lines

\* every title and todo of the plan is a non-empty trimmed string
TrimmedFields(p) ==
  /\ IsTrimmed(p.title)
  /\ \A i \in 1..Len(p.steps) :
       /\ IsTrimmed(p.steps[i].title)
       /\ \A j \in 1..Len(p.steps[i].todos) : IsTrimmed(p.steps[i].todos[j])

\* C17: formatPlanContent returns, for every plan, the lines '# {title}', the
\* description if not empty, and per step in order '## Step k: {title}' numbered
\* by position, the step description if not empty and, only for a step with a
\* todo, '### Todo List' and one '- [ ] {todo}' line per todo; blocks are set off
\* by blank lines and the whole is trimmed, so the text neither starts nor ends
\* with whitespace and a plan with a title alone gives '# {title}'.
C17_Format ==
  call.op = "formatPlanContent" =>
    /\ call.result = Trim(Join(PlanLines(call.plan)))
    /\ IsTrimmed(call.result)
    /\ TrimmedFields(call.plan) =>
         Split(call.result) = DropTrailingEmpty(PlanLines(call.plan))
    /\ (call.plan = [title |-> <<"T">>, steps |-> <<>>]) => call.result = <<"#", " ", "T">>

C17_Witness ==
  /\ call.op = "formatPlanContent"
  /\ call.plan = [title |-> <<"T">>, steps |-> <<StepC, StepNumbered>>]
  /\ Split(call.result) =
       << <<"#", " ", "T">>, <<>>,
          <<"#", "#", " ", "S", "t", "e", "p", " ", "1", ":", " ", "C">>, <<>>,
          <<"#", "#", " ", "S", "t", "e", "p", " ", "2", ":", " ",
            "S", "t", "e", "p", " ", "1", ":", " ", "B">>, <<>>,
          <<"#", "#", "#", " ", "T", "o", "d", "o", " ", "L", "i", "s", "t">>,
          <<"-", " ", "[", " ", "]", " ">>,
          <<"-", " ", "[", " ", "]", " ", "a">> >>

\* C18: for a plan whose title, step titles and todos are non-empty trimmed
\* one-line strings and an index within its steps,
\* extractStepFromMarkdown(formatPlanContent(plan), index) is the step of the
\* plan at that index: same title, same description or none, same todos.
C18_ExtractAfterFormat ==
  (call.op = "extractStepFromMarkdown" /\ pc = "extracted" /\ TrimmedFields(plan)
     /\ call.stepIndex >= 0 /\ call.stepIndex < Len(plan.steps)) =>
    call.result = plan.steps[call.stepIndex + 1]

\* a step with a non-empty title and at least one todo
GoodStep(step) == step.title # <<>> /\ Len(step.todos) >= 1

\* C19: from a plan that validatePlanStructure accepts, addStepToPlan and
\* updateStepInPlan with a step that has a non-empty title and at least one todo
\* (any index), and removeStepFromPlan leaving at least one step, give a plan it
\* accepts, so this holds after any sequence of such edits; after
\* removeStepFromPlan the plan is rejected only when the removed step was the
\* last one left.
C19_Edit ==
  (call'.op \in EditOps /\ call'.plan = plan /\ validatePlanStructure(plan) = TRUE) =>
    /\ (call'.op \in {"addStepToPlan", "updateStepInPlan"} /\ GoodStep(call'.step)) =>
         validatePlanStructure(plan') = TRUE
    /\ call'.op = "removeStepFromPlan" =>
         (validatePlanStructure(plan') = TRUE
            <=> ~(Len(plan.steps) = 1 /\ call'.stepIndex = 0))

C19_ValidityPreserved == [][C19_Edit]_vars

C19_Witness ==
  /\ call.op = "removeStepFromPlan"
  /\ call.stepIndex = 1
  /\ Len(call.plan.steps) = MaxSteps
  /\ validatePlanStructure(call.plan) = TRUE
  /\ Len(plan.steps) = MaxSteps - 1
  /\ validatePlanStructure(plan) = TRUE

\* the loop takes one line
LineStep == pc = "parsing" /\ n' = n + 1

\* a non-empty trimmed line that does not start with '#'
IsText(t) == t # <<>> /\ ~HasPrefix(t, <<"#">>)

\* the steps collected and the one in progress, in order
AllSteps(s) == IF s.currentStep = Null THEN s.steps ELSE Append(s.steps, s.currentStep)

\* the description of a step, empty when it has none
DescriptionOf(step) == IF "description" \in DOMAIN step THEN step.description ELSE <<>>

StepDescriptions(s) == [k \in 1..Len(AllSteps(s)) |-> DescriptionOf(AllSteps(s)[k])]

FirstWins(old, t) == IF old = <<>> THEN t ELSE old

\* C21: the plan description is the first non-empty line not starting with '#'
\* after the title line and before the first step, later such lines change
\* nothing; a step's description is the first such line after its heading and
\* before its todo block, later ones change nothing; a line inside a todo block
\* that is no checkbox sets or changes no description.
C21_Line ==
  (LineStep /\ IsText(Trim(line'))) =>
    LET t == Trim(line')
        box == HasPrefix(t, UncheckedBox) \/ HasPrefix(t, CheckedBox)
        last == Len(AllSteps(st))
    IN /\ (h.sawTitle /\ h.stepLines = 0) =>
            /\ st'.description = FirstWins(st.description, t)
            /\ StepDescriptions(st') = StepDescriptions(st)
       /\ (h.stepLines > 0 /\ h.todoHeaders = 0) =>
            /\ st'.description = st.description
            /\ StepDescriptions(st') =
                 [StepDescriptions(st) EXCEPT ![last] = FirstWins(@, t)]
       /\ (h.stepLines > 0 /\ h.todoHeaders > 0 /\ ~box) =>
            /\ st'.description = st.description
            /\ StepDescriptions(st') = StepDescriptions(st)

C21_FirstLineWins == [][C21_Line]_vars

\* C23: once a '## ' step heading has been processed no line sets the plan
\* description, not even after a later '# ' title line; a non-heading line then
\* goes to the step rules: it becomes the current step's description if the step
\* has none and its todo block has not started.
C23_Line ==
  (LineStep /\ h.stepLines > 0) =>
    /\ st'.description = st.description
    /\ (IsText(Trim(line')) /\ ~st.isParsingTodos) =>
         StepDescriptions(st') =
           [StepDescriptions(st) EXCEPT ![Len(AllSteps(st))] = FirstWins(@, Trim(line'))]

C23_NoPlanDescriptionAfterStep == [][C23_Line]_vars

\* title and todos of every step collected or in progress, how many of them are
\* collected, and whether a todo block is being captured
Skeleton(s) ==
  [steps |-> [k \in 1..Len(AllSteps(s)) |->
                [title |-> AllSteps(s)[k].title, todos |-> AllSteps(s)[k].todos]],
   collected |-> Len(s.steps),
   isParsingTodos |-> s.isParsingTodos]

WithoutDescription(step) == [title |-> step.title, todos |-> step.todos]

\* the parser's locals had no '# ' line and no description line been seen
Untitled(s) ==
  [s EXCEPT !.title = <<>>, !.description = <<>>, !.isParsingDescription = FALSE,
            !.steps = [k \in 1..Len(s.steps) |-> WithoutDescription(s.steps[k])],
            !.currentStep = IF @ = Null THEN Null ELSE WithoutDescription(@)]

\* C22 (line step): a '# ' line sets the title to its own trimmed text, whether
\* or not steps have begun, and leaves the collected steps, the step in progress
\* and the todo capture as they are; no other line changes the title; and what a
\* line does to step titles and todos is what it would do had no title line been
\* seen.
C22_Line ==
  LineStep =>
    LET t == Trim(line') IN
    /\ HasPrefix(t, <<"#", " ">>) =>
         /\ st'.title = Trim(SubSeq(t, 3, Len(t)))
         /\ st'.steps = st.steps
         /\ st'.currentStep = st.currentStep
         /\ st'.isParsingTodos = st.isParsingTodos
    /\ ~HasPrefix(t, <<"#", " ">>) => st'.title = st.title
    /\ Skeleton(st') = Skeleton(ParseLine(Untitled(st), line'))

\* C22 (return step): the returned title is the one last set, and the returned
\* steps have the titles and todos collected.
C22_Return ==
  (pc = "parsing" /\ pc' = "parsed") =>
    /\ st.title # <<>> => plan'.title = st.title
    /\ [k \in 1..Len(plan'.steps) |-> WithoutDescription(plan'.steps[k])] = Skeleton(st).steps

\* C22: a '# ' line after steps have begun replaces the title (the last one
\* wins) and removes, resets, reorders or closes no step: steps, their titles and
\* the todos collected are as if the line were absent.
C22_LateTitle == [][C22_Line /\ C22_Return]_vars

C22_Witness ==
  /\ pc = "parsing"
  /\ line = LTitlePadded
  /\ st.title = <<"U">>
  /\ Len(st.steps) = 1
  /\ st.currentStep # Null
  /\ st.currentStep.todos = <<<<"a">>>>
  /\ st.isParsingTodos

\* the text holds "todo" in some letter case
HasTodoWord(t) ==
  \E i \in 1..(Len(t) - 3) :
    /\ t[i] \in {"t", "T"}
    /\ t[i + 1] \in {"o", "O"}
    /\ t[i + 2] \in {"d", "D"}
    /\ t[i + 3] \in {"o", "O"}

\* C24 (line step): a '### ' line whose text holds "todo" in any letter case
\* turns todo capture on and leaves the steps as they are; a '### ' line without
\* it changes nothing, so it neither starts nor stops a capture; and no other
\* line turns todo capture on.
C24_Line ==
  LineStep =>
    LET t == Trim(line')
        section == HasPrefix(t, <<"#", "#", "#", " ">>)
    IN /\ (section /\ HasTodoWord(t)) =>
            /\ st'.isParsingTodos
            /\ st'.steps = st.steps
            /\ st'.currentStep = st.currentStep
       /\ (section /\ ~HasTodoWord(t)) => st' = st
       /\ (st'.isParsingTodos /\ ~st.isParsingTodos) => (section /\ HasTodoWord(t))

\* C24: a '### ' line opens the todo block of the current step if and only if
\* its text holds "todo" in any letter case; another '### ' heading neither
\* starts nor stops todo capture.
C24_TodoHeading == [][C24_Line]_vars

C24_Witness ==
  /\ pc = "parsing"
  /\ line = LTodoHeaderUpper
  /\ st.isParsingTodos
  /\ st.currentStep # Null
  /\ st.currentStep.todos = <<>>

\* C25: in every invocation of generateTaskPlan or modifyTaskPlan the prompt
\* function is called once, then createLLMResponse once with that prompt,
\* whatever it settles with; then, only when it resolved with a non-empty answer,
\* parsePlanResponse once on that answer and, only when that returned,
\* formatPlanContent once on the returned plan; the invocation then returns that
\* plan and that formatted text.
C25_CallOrder ==
  call.op \in {"generateTaskPlan", "modifyTaskPlan"} =>
    LET generate == call.op = "generateTaskPlan"
        prompts == EventsOf(IF generate THEN "generatePlanPrompt" ELSE "modifyPlanPrompt")
        llms == EventsOf("createLLMResponse")
        parses == EventsOf("parsePlanResponse")
        formats == EventsOf("formatPlanContent")
        answered == "answerText" \in DOMAIN call.llm /\ call.llm.answerText \notin EmptyAnswers
    IN /\ Len(prompts) = 1 /\ call.events[1] = prompts[1]
       /\ prompts[1].args = call.params
       /\ Len(llms) = 1 /\ call.events[2] = llms[1]
       /\ llms[1].args.body.messages[1].content =
            (IF generate THEN generatePlanPrompt(call.params)
             ELSE modifyPlanPrompt(call.params))
       /\ pc = "awaiting" => Len(call.events) = 2
       /\ Settled =>
            /\ Len(parses) = (IF answered THEN 1 ELSE 0)
            /\ answered =>
                 /\ call.events[3] = parses[1]
                 /\ parses[1].args.response = call.llm.answerText
                 /\ Len(formats) = (IF "ok" \in DOMAIN parses[1].args.outcome THEN 1 ELSE 0)
            /\ ~answered => formats = <<>>
            /\ formats # <<>> =>
                 /\ call.events = <<prompts[1], llms[1], parses[1], formats[1]>>
                 /\ formats[1].args = parses[1].args.outcome.ok
                 /\ pc = "returned"
                 /\ call.outcome.returned.plan = parses[1].args.outcome.ok
                 /\ call.outcome.returned.markdown = Str(formatPlanContent(formats[1].args))

C25_Witness ==
  /\ pc = "returned"
  /\ call.op = "modifyTaskPlan"
  /\ call.llm.answerText = Str(DocFull)
  /\ Len(call.events) = 4
  /\ call.events[4].ev = "formatPlanContent"
  /\ call.outcome.returned.plan = call.events[4].args
  /\ Len(call.outcome.returned.plan.steps) = 2

\* C29: transferPlanAgent always returns: when createLLMResponse fails it logs
\* one warning and returns content "" with inputTokens 0 and outputTokens 0,
\* otherwise it returns the answer text and the token counts it was given; in
\* both cases createLLMResponse is called at most once.
C29_TransferNeverFails ==
  call.op = "transferPlanAgent" =>
    /\ Len(EventsOf("createLLMResponse")) <= 1
    /\ pc # "failed"
    /\ pc = "returned" =>
         IF "rejected" \in DOMAIN call.llm
           THEN /\ call.outcome.returned =
                     [content |-> Str(<<>>), inputTokens |-> 0, outputTokens |-> 0]
                /\ Len(EventsOf("addLog.warn")) = 1
           ELSE /\ call.outcome.returned =
                     [content |-> call.llm.answerText,
                      inputTokens |-> call.llm.usage.inputTokens,
                      outputTokens |-> call.llm.usage.outputTokens]
                /\ EventsOf("addLog.warn") = <<>>

C29_Witness ==
  /\ pc = "returned"
  /\ call.op = "transferPlanAgent"
  /\ "rejected" \in DOMAIN call.llm
  /\ call.outcome.returned.content = Str(<<>>)
  /\ Len(call.events) = 2
  /\ call.events[2].ev = "addLog.warn"

StepTitles(steps) == [k \in 1..Len(steps) |-> steps[k].title]

\* C26 (state part): the steps held, and the steps of the returned plan, are as
\* many as the lines that start with '## ' after trimming.
C26_Count ==
  /\ pc = "parsing" => Len(AllSteps(st)) = h.stepLines
  /\ (HasPlan /\ plan # Threw) => Len(plan.steps) = h.stepLines

\* C26 (line step): a '## ' line adds one step after those held, titled with the
\* trimmed text after the marker; any other line leaves the number, the order
\* and the titles of the steps as they are.
C26_Line ==
  LineStep =>
    LET t == Trim(line') IN
    StepTitles(AllSteps(st')) =
      (IF HasPrefix(t, <<"#", "#", " ">>)
         THEN Append(StepTitles(AllSteps(st)), Trim(SubSeq(t, 4, Len(t))))
         ELSE StepTitles(AllSteps(st)))

\* C26 (return step): the returned steps are those held, the one in progress last.
C26_Return ==
  (pc = "parsing" /\ pc' = "parsed") =>
    StepTitles(plan'.steps) = StepTitles(AllSteps(st))

\* C26: parsePlanResponse returns one step per '## ' line, in document order,
\* titled with the trimmed text after the marker; no other line creates, drops,
\* merges or reorders a step, and the step in progress at the end is included.
C26_StepPerHeading == []C26_Count /\ [][C26_Line /\ C26_Return]_vars

C26_Witness ==
  /\ pc = "parsed"
  /\ h.stepLines = 2
  /\ h.sawTitle
  /\ StepTitles(plan.steps) = << <<"A">>, <<"S", "t", "e", "p", " ", "1", ":", " ", "B">> >>
  /\ plan.steps[1].todos # <<>>

\* C27: every plan parsePlanResponse returns has a non-empty title, and every
\* step of it a non-empty title without leading or trailing whitespace; so
\* validatePlanStructure rejects it only when it has no step or some step has no
\* todo.
C27_ParsedTitles ==
  (HasPlan /\ plan # Threw) =>
    /\ plan.title # <<>>
    /\ \A k \in 1..Len(plan.steps) : IsTrimmed(plan.steps[k].title)
    /\ validatePlanStructure(plan) = FALSE =>
         \/ plan.steps = <<>>
         \/ \E k \in 1..Len(plan.steps) : plan.steps[k].todos = <<>>

C27_Witness ==
  /\ pc = "parsed"
  /\ ~h.sawTitle
  /\ Len(plan.steps) = 2
  /\ plan.steps[1].todos # <<>>
  /\ plan.steps[2].todos = <<>>
  /\ validatePlanStructure(plan) = FALSE

\* the title a step at position k (from 1) has after one more format and parse
Relabelled(k, title) ==
  <<"S", "t", "e", "p", " ">> \o NumberToString(k) \o <<":", " ">> \o title

C30_Line ==
  LineStep =>
    LET t == Trim(line') IN
    /\ IsStepLine(t) => ~st'.isParsingTodos /\ st'.currentStep.todos = <<>>
    /\ \A k \in 1..Len(st.steps) :
         k <= Len(st'.steps) /\ st'.steps[k] = st.steps[k]
    /\ AllTodos(st') # AllTodos(st) =>
         /\ IsCheckbox(t)
         /\ h.stepLines > 0
         /\ h.todoHeaders >= 1
         /\ st.currentStep # Null
         /\ st'.steps = st.steps
         /\ st'.currentStep.todos = Append(st.currentStep.todos, TodoText(t))

\* C30: a step's todos hold only checkbox items that follow a todo heading of
\* that same step; a checkbox line before such a heading, or before the first
\* step, is never collected, and an item never goes to a step other than the one
\* opened last.
C30_TodosBelongToStep == [][C30_Line]_vars

C30_Witness ==
  /\ pc = "parsing"
  /\ line = LUnchecked
  /\ h.todoHeaders = 0
  /\ Len(st.steps) = 1
  /\ st.steps[1].todos # <<>>
  /\ st.currentStep # Null
  /\ st.currentStep.todos = <<>>
  /\ DescriptionOf(st.currentStep) = Trim(LUnchecked)

====
